---- MODULE Spec2Model ----
(***************************************************************************)
(* Model of github.com/monzo/verifiedsms: the sender side of Verified SMS. *)
(* One call of Partner.MarkSMSAsVerified or Partner.GetPhoneNumberPublicKeys*)
(* is followed from its entry to its return, with the two HTTP exchanges    *)
(* (key lookup, hash submission) as the points where the environment acts.  *)
(* Strings that are only compared are TLA+ strings; the SMS text, which is  *)
(* trimmed, is a sequence of characters.                                    *)
(***************************************************************************)
EXTENDS Integers, Sequences, FiniteSets, TLC

\* ---------------------------------------------------------------- bounds
\* Longest SMS text, in characters.
MaxLen == 2
\* Most entries in the userKeys array of a lookup response.
MaxUserKeys == 2

\* ------------------------------------------------------------- constants
ApiGetPublicKeysUrl == "https://verifiedsms.googleapis.com/v1/enabledUserKeys:batchGet"
ApiSubmitHashesUrl == "https://verifiedsms.googleapis.com/v1/messages:batchCreate"

\* ------------------------------------------------------ elliptic curves
\* crypto/elliptic curves are y^2 = x^3 - 3x + B over GF(P).  The model keeps
\* the equation and the group law and shrinks the field: "P-384" is the curve
\* of prime order 19 over GF(13), "P-256" the curve of prime order 17 over the
\* smaller field GF(11).
P384 == [Name |-> "P-384", P |-> 13, B |-> 1]
P256 == [Name |-> "P-256", P |-> 11, B |-> 1]

NamedCurve(name) == IF name = "P-384" THEN P384 ELSE P256

\* (0, 0) stands for the point at infinity, as in crypto/elliptic.
Infinity == <<0, 0>>

RECURSIVE PowMod(_, _, _)
PowMod(a, e, p) == IF e = 0 THEN 1 ELSE (a * PowMod(a, e - 1, p)) % p

\* Modular inverse (Fermat); 0 has none and yields 0.
InvMod(a, p) == PowMod(a % p, p - 2, p)

\* elliptic.Curve.IsOnCurve
IsOnCurve(curve, x, y) ==
    /\ x \in 0..(curve.P - 1)
    /\ y \in 0..(curve.P - 1)
    /\ (y * y) % curve.P = (x * x * x + (curve.P - 3) * x + curve.B) % curve.P

\* Affine point doubling and addition.
Double(curve, pt) ==
    IF pt = Infinity \/ pt[2] = 0 THEN Infinity
    ELSE LET p == curve.P
             l == ((3 * pt[1] * pt[1] + (p - 3)) * InvMod(2 * pt[2], p)) % p
             x == (l * l + 2 * (p - pt[1])) % p
             y == (l * (pt[1] + (p - x)) + (p - pt[2])) % p
         IN <<x, y>>

Add(curve, p1, p2) ==
    IF p1 = Infinity THEN p2
    ELSE IF p2 = Infinity THEN p1
    ELSE IF p1 = p2 THEN Double(curve, p1)
    ELSE IF p1[1] = p2[1] THEN Infinity
    ELSE LET p == curve.P
             l == ((p2[2] + (p - p1[2])) * InvMod(p2[1] + (p - p1[1]), p)) % p
             x == (l * l + (p - p1[1]) + (p - p2[1])) % p
             y == (l * (p1[1] + (p - x)) + (p - p1[2])) % p
         IN <<x, y>>

\* elliptic.Curve.ScalarMult
RECURSIVE ScalarMult(_, _, _)
ScalarMult(curve, pt, d) ==
    IF d = 0 THEN Infinity ELSE Add(curve, ScalarMult(curve, pt, d - 1), pt)

\* big.Int.Bytes: big-endian, no leading zero bytes (coordinates fit one byte).
Bytes(n) == IF n = 0 THEN <<>> ELSE <<n>>

\* ---------------------------------------------------------------- inputs
WhiteSpace == {" ", "\t", "\n", "\r"}
Chars == {" ", "h"}
Messages == UNION {[1..n -> Chars] : n \in 0..MaxLen}

PhoneNumbers == {"+447700900461", "+447700900462"}

\* The publicKey field of a response entry, by what decoding finds in it: text
\* that is not base64, an RSA key, a P-256 key, two P-384 keys, and a container
\* naming P-384 whose point is not on it.
Payloads ==
    { [kind |-> "bad_base64", curve |-> "", X |-> 0, Y |-> 0],
      [kind |-> "rsa",        curve |-> "", X |-> 0, Y |-> 0],
      [kind |-> "ec", curve |-> "P-256", X |-> 2, Y |-> 5],
      [kind |-> "ec", curve |-> "P-384", X |-> 1, Y |-> 5],
      [kind |-> "ec", curve |-> "P-384", X |-> 6, Y |-> 2],
      [kind |-> "ec", curve |-> "P-384", X |-> 6, Y |-> 3] }

UserKeyEntries == [PhoneNumber : PhoneNumbers, PublicKey : Payloads]
UserKeyLists == UNION {[1..n -> UserKeyEntries] : n \in 0..MaxUserKeys}

Agents == [ID : {"agent-1"}, D : {5}]

\* Partner.ServiceAccountJSONFile, by what GetHttpClient and the token source
\* find in it.
ServiceAccounts ==
    { [json |-> FALSE, pem |-> FALSE, key |-> FALSE],
      [json |-> TRUE,  pem |-> FALSE, key |-> FALSE],
      [json |-> TRUE,  pem |-> TRUE,  key |-> FALSE],
      [json |-> TRUE,  pem |-> TRUE,  key |-> TRUE] }

StatusCodes == {199, 200, 299, 300}

NoResponse == [kind |-> "none", status |-> 0, json |-> FALSE, userKeys |-> <<>>]

\* What client.Do of the lookup request can come back with.  The body of a
\* response is read only after a 2xx status.
LookupResponses ==
    { [kind |-> "transport_error", status |-> 0, json |-> FALSE, userKeys |-> <<>>] }
    \cup { [kind |-> "http", status |-> s, json |-> FALSE, userKeys |-> <<>>] :
             s \in StatusCodes }
    \cup { [kind |-> "http", status |-> 200, json |-> TRUE, userKeys |-> u] :
             u \in UserKeyLists }
    \cup { [kind |-> "http", status |-> 299, json |-> TRUE, userKeys |-> <<>>] }

SubmitResponses ==
    { [kind |-> "transport_error", status |-> 0, json |-> FALSE, userKeys |-> <<>>] }
    \cup { [kind |-> "http", status |-> s, json |-> FALSE, userKeys |-> <<>>] :
             s \in StatusCodes }

VARIABLES
    pc,               \* position of the call
    op,               \* which exported method was called
    partner,          \* Partner.ServiceAccountJSONFile
    phoneNumber,
    agent,
    smsMessage,
    requests,         \* requests handed to the network, in order
    lookupResp,       \* what the lookup request came back with
    submitResp,       \* what the submission request came back with
    publicKeys,       \* GetPhoneNumberPublicKeys: returned keys
    keysErr,          \* GetPhoneNumberPublicKeys: returned error
    smsMessages,      \* MarkSMSAsVerified: the variants
    ki, vi,           \* MarkSMSAsVerified: the loops' positions
    messagesToGoogle, \* MarkSMSAsVerified: the batch
    scalarMults,      \* points handed to ScalarMult
    verified,         \* MarkSMSAsVerified: returned bool
    err               \* MarkSMSAsVerified: returned error

vars == <<pc, op, partner, phoneNumber, agent, smsMessage, requests, lookupResp,
          submitResp, publicKeys, keysErr, smsMessages, ki, vi, messagesToGoogle,
          scalarMults, verified, err>>

\* ------------------------------------------------------------ data munging
IsSpace(c) == c \in WhiteSpace

RECURSIVE TrimLeft(_)
TrimLeft(s) ==
    IF s = <<>> THEN s
    ELSE IF IsSpace(Head(s)) THEN TrimLeft(Tail(s)) ELSE s

RECURSIVE TrimRight(_)
TrimRight(s) ==
    IF s = <<>> THEN s
    ELSE IF IsSpace(s[Len(s)]) THEN TrimRight(SubSeq(s, 1, Len(s) - 1)) ELSE s

\* strings.TrimSpace
TrimSpace(s) == TrimRight(TrimLeft(s))

GetAllIterations_TrimmedFirst(msg) ==
    IF TrimSpace(msg) # msg THEN <<TrimSpace(msg), msg>> ELSE <<TrimSpace(msg)>>

GetAllIterationsOfSMSMessage(msg) ==
    LET iterations == <<msg>>
        trimmedMessage == TrimSpace(msg)
    IN IF trimmedMessage # msg THEN Append(iterations, msg) ELSE iterations

\* ----------------------------------------------------------------- hashing
NoKey == [Curve |-> "", X |-> 0, Y |-> 0]

\* base64 decoding, x509.ParsePKIXPublicKey (which refuses a point that is not
\* on the curve the container names) and the *ecdsa.PublicKey assertion.
getPublicKeyFromPublicKeyPayload(payload) ==
    IF payload.kind = "bad_base64" THEN [err |-> "base64", key |-> NoKey]
    ELSE IF payload.kind = "rsa" THEN [err |-> "InternalService", key |-> NoKey]
    ELSE IF ~IsOnCurve(NamedCurve(payload.curve), payload.X, payload.Y)
         THEN [err |-> "x509", key |-> NoKey]
    ELSE [err |-> "nil",
          key |-> [Curve |-> payload.curve, X |-> payload.X, Y |-> payload.Y]]

\* The result carries, besides the secret and the error, the points that were
\* handed to ScalarMult.
ecdhDeriveSecret_Unchecked(privateKey, publicKey) ==
    [err |-> "nil",
     secret |-> Bytes(ScalarMult(P384, <<publicKey.X, publicKey.Y>>, privateKey.D)[1]),
     mults |-> {<<publicKey.X, publicKey.Y>>}]

ecdhDeriveSecret(privateKey, publicKey) ==
    LET ecdhCurve == P384 IN
    IF ~IsOnCurve(ecdhCurve, publicKey.X, publicKey.Y)
    THEN [err |-> "PreconditionFailed", secret |-> <<>>, mults |-> {}]
    ELSE [err |-> "nil",
          secret |-> Bytes(ScalarMult(ecdhCurve, <<publicKey.X, publicKey.Y>>,
                                      privateKey.D)[1]),
          mults |-> {<<publicKey.X, publicKey.Y>>}]

\* HKDF-SHA256(secret, no salt, info = message), 32 bytes: a function of the
\* secret and the message; reading 32 bytes from it cannot fail.
deriveHashForSMSMessage(sharedSecret, smsMessageContent) ==
    [err |-> "nil", hash |-> <<"hkdf-sha256", sharedSecret, smsMessageContent>>]

NoHash == <<"hkdf-sha256", <<>>, <<>>>>

GetHashForSMSMessage(publicKeyString, agentPrivateKey, msg) ==
    LET parsed == getPublicKeyFromPublicKeyPayload(publicKeyString) IN
    IF parsed.err # "nil"
    THEN [err |-> parsed.err, hash |-> NoHash, mults |-> {}]
    ELSE LET shared == ecdhDeriveSecret(agentPrivateKey, parsed.key) IN
         IF shared.err # "nil"
         THEN [err |-> shared.err, hash |-> NoHash, mults |-> shared.mults]
         ELSE LET derived == deriveHashForSMSMessage(shared.secret, msg) IN
              [err |-> derived.err, hash |-> derived.hash, mults |-> shared.mults]

\* base64.StdEncoding.EncodeToString
Base64(bytes) == <<"base64", bytes>>

\* ------------------------------------------------------------------ oauth2
\* json.Unmarshal, then pem.Decode whose nil block is dereferenced unchecked.
GetHttpClient(serviceAccountJSON) ==
    IF ~serviceAccountJSON.json THEN "error"
    ELSE IF ~serviceAccountJSON.pem THEN "panic"
    ELSE "client"

\* client.Do: the token source signs with the private key before the request
\* leaves; a key it cannot use fails the call with nothing sent.
TokenIssued(serviceAccountJSON) == serviceAccountJSON.key

\* ------------------------------------------------------------ verified-sms
BadStatus_OnlyLow(code) == code < 200

BadStatus(code) == code < 200 \/ code > 299

FilterKeys_All(userKeys, phone) ==
    [i \in 1..Len(userKeys) |-> userKeys[i].PublicKey]

\* The loop of GetPhoneNumberPublicKeys over response.UserKeys.
RECURSIVE FilterKeys(_, _)
FilterKeys(userKeys, phone) ==
    IF userKeys = <<>> THEN <<>>
    ELSE LET rest == FilterKeys(Tail(userKeys), phone) IN
         IF Head(userKeys).PhoneNumber = phone
         THEN <<Head(userKeys).PublicKey>> \o rest
         ELSE rest

\* GetPhoneNumberPublicKeys from the response on: the error it returns.
LookupError(resp) ==
    IF resp.kind = "transport_error" THEN "transport"
    ELSE IF BadStatus(resp.status) THEN "InternalService"
    ELSE IF ~resp.json THEN "json_decode"
    ELSE "nil"

LookupRequest(phone) ==
    [url |-> ApiGetPublicKeysUrl, phoneNumbers |-> <<phone>>, messages |-> <<>>]

SubmitRequest(messages) ==
    [url |-> ApiSubmitHashesUrl, phoneNumbers |-> <<>>, messages |-> messages]

MessageSubmission(hash, a) == [Hash |-> Base64(hash), AgentId |-> a.ID]

NextPair_KeysInner(k, v, nk, nv) ==
    IF k < nk THEN <<k + 1, v>> ELSE <<1, v + 1>>

\* The nested range loops: the pair after (k, v).
NextPair(k, v, nk, nv) ==
    IF v < nv THEN <<k, v + 1>> ELSE <<k + 1, 1>>

LoopDone(pair, nk, nv) == pair[1] > nk \/ pair[2] > nv

SubmitError_Swallow(resp) ==
    IF resp.kind = "transport_error" THEN "transport" ELSE "nil"

\* MarkSMSAsVerified from the submission response on: the error it returns.
SubmitError(resp) ==
    IF resp.kind = "transport_error" THEN "transport"
    ELSE IF BadStatus(resp.status) THEN "InternalService"
    ELSE "nil"

\* ------------------------------------------------------------------ state
Init ==
    /\ pc = "idle"
    /\ op = "none"
    /\ partner = [json |-> FALSE, pem |-> FALSE, key |-> FALSE]
    /\ phoneNumber = ""
    /\ agent = [ID |-> "", D |-> 0]
    /\ smsMessage = <<>>
    /\ requests = <<>>
    /\ lookupResp = NoResponse
    /\ submitResp = NoResponse
    /\ publicKeys = <<>>
    /\ keysErr = "nil"
    /\ smsMessages = <<>>
    /\ ki = 0
    /\ vi = 0
    /\ messagesToGoogle = <<>>
    /\ scalarMults = {}
    /\ verified = FALSE
    /\ err = "nil"

\* GetPhoneNumberPublicKeys returns (nil, e); MarkSMSAsVerified, when it is the
\* caller, propagates e.
KeysFail_Retry(e) ==
    /\ pc' = "lookup_wait"
    /\ requests' = Append(requests, LookupRequest(phoneNumber))
    /\ keysErr' = "nil"
    /\ err' = "nil"
    /\ publicKeys' = <<>>

KeysFail(e) ==
    /\ pc' = "done"
    /\ requests' = requests
    /\ keysErr' = e
    /\ err' = IF op' = "mark" THEN e ELSE "nil"
    /\ publicKeys' = <<>>

\* GetPhoneNumberPublicKeys up to client.Do (verified-sms.go 113-137).
SendLookup ==
    LET client == GetHttpClient(partner') IN
    IF client = "panic"
    THEN /\ pc' = "panic"
         /\ UNCHANGED <<requests, keysErr, err, publicKeys>>
    ELSE IF client = "error" THEN KeysFail("json_unmarshal")
    ELSE IF ~TokenIssued(partner') THEN KeysFail("token")
    ELSE /\ pc' = "lookup_wait"
         /\ requests' = Append(requests, LookupRequest(phoneNumber'))
         /\ UNCHANGED <<keysErr, err, publicKeys>>

\* A caller calls partner.MarkSMSAsVerified(ctx, phone, agent, msg).
CallMarkSMSAsVerified ==
    /\ pc = "idle"
    /\ \E sa \in ServiceAccounts, phone \in PhoneNumbers, a \in Agents, msg \in Messages :
         /\ op' = "mark"
         /\ partner' = sa
         /\ phoneNumber' = phone
         /\ agent' = a
         /\ smsMessage' = msg
    /\ SendLookup
    /\ UNCHANGED <<lookupResp, submitResp, smsMessages, ki, vi, messagesToGoogle,
                   scalarMults, verified>>

\* A caller calls partner.GetPhoneNumberPublicKeys(ctx, phone).
CallGetPhoneNumberPublicKeys ==
    /\ pc = "idle"
    /\ \E sa \in ServiceAccounts, phone \in PhoneNumbers :
         /\ op' = "keys"
         /\ partner' = sa
         /\ phoneNumber' = phone
    /\ SendLookup
    /\ UNCHANGED <<agent, smsMessage, lookupResp, submitResp, smsMessages, ki, vi,
                   messagesToGoogle, scalarMults, verified>>

\* MarkSMSAsVerified between the return of GetPhoneNumberPublicKeys and the
\* loops (verified-sms.go 50-56).
AfterKeys(keys) ==
    IF op = "keys" \/ Len(keys) = 0
    THEN /\ pc' = "done"
         /\ UNCHANGED <<smsMessages, ki, vi>>
    ELSE /\ pc' = "derive"
         /\ smsMessages' = GetAllIterationsOfSMSMessage(smsMessage)
         /\ ki' = 1
         /\ vi' = 1

\* client.Do of the lookup request returns; GetPhoneNumberPublicKeys runs to its
\* return (verified-sms.go 137-166) and MarkSMSAsVerified on to its loops.
LookupResponse ==
    /\ pc = "lookup_wait"
    /\ UNCHANGED <<op, partner, phoneNumber, agent, smsMessage, submitResp,
                   messagesToGoogle, scalarMults, verified>>
    /\ \E resp \in LookupResponses :
         /\ lookupResp' = resp
         /\ IF LookupError(resp) # "nil"
            THEN /\ KeysFail(LookupError(resp))
                 /\ UNCHANGED <<smsMessages, ki, vi>>
            ELSE /\ publicKeys' = FilterKeys(resp.userKeys, phoneNumber)
                 /\ AfterKeys(publicKeys')
                 /\ UNCHANGED <<requests, keysErr, err>>

\* The loops' step after a hash was appended or a pair was passed over.
Advance ==
    LET next == NextPair(ki, vi, Len(publicKeys), Len(smsMessages)) IN
    /\ ki' = next[1]
    /\ vi' = next[2]
    /\ pc' = IF LoopDone(next, Len(publicKeys), Len(smsMessages))
             THEN "submit" ELSE "derive"

DeriveFail_Skip(e) ==
    /\ Advance
    /\ UNCHANGED <<err, messagesToGoogle>>

\* GetHashForSMSMessage returned an error: return false, Propagate(err).
DeriveFail(e) ==
    /\ pc' = "done"
    /\ err' = e
    /\ UNCHANGED <<ki, vi, messagesToGoogle>>

\* One iteration of the inner loop (verified-sms.go 59-69).
DeriveHash ==
    /\ pc = "derive"
    /\ LET r == GetHashForSMSMessage(publicKeys[ki], agent, smsMessages[vi]) IN
         /\ scalarMults' = scalarMults \cup r.mults
         /\ IF r.err # "nil"
            THEN DeriveFail(r.err)
            ELSE /\ messagesToGoogle' =
                        Append(messagesToGoogle, MessageSubmission(r.hash, agent))
                 /\ Advance
                 /\ err' = err
    /\ UNCHANGED <<op, partner, phoneNumber, agent, smsMessage, requests, lookupResp,
                   submitResp, publicKeys, keysErr, smsMessages, verified>>

\* After the loops: the request is built and handed to client.Do
\* (verified-sms.go 72-94).
SendSubmit ==
    /\ pc = "submit"
    /\ LET client == GetHttpClient(partner) IN
         IF client = "panic"
         THEN /\ pc' = "panic"
              /\ UNCHANGED <<requests, err>>
         ELSE IF client = "error"
         THEN /\ pc' = "done"
              /\ err' = "json_unmarshal"
              /\ requests' = requests
         ELSE IF ~TokenIssued(partner)
         THEN /\ pc' = "done"
              /\ err' = "token"
              /\ requests' = requests
         ELSE /\ pc' = "submit_wait"
              /\ requests' = Append(requests, SubmitRequest(messagesToGoogle))
              /\ err' = err
    /\ UNCHANGED <<op, partner, phoneNumber, agent, smsMessage, lookupResp, submitResp,
                   publicKeys, keysErr, smsMessages, ki, vi, messagesToGoogle,
                   scalarMults, verified>>

\* client.Do of the submission request returns (verified-sms.go 94-107).
SubmitResponse ==
    /\ pc = "submit_wait"
    /\ \E resp \in SubmitResponses :
         /\ submitResp' = resp
         /\ err' = SubmitError(resp)
         /\ verified' = (err' = "nil")
    /\ pc' = "done"
    /\ UNCHANGED <<op, partner, phoneNumber, agent, smsMessage, requests, lookupResp,
                   publicKeys, keysErr, smsMessages, ki, vi, messagesToGoogle,
                   scalarMults>>

Next ==
    \/ CallMarkSMSAsVerified
    \/ CallGetPhoneNumberPublicKeys
    \/ LookupResponse
    \/ DeriveHash
    \/ SendSubmit
    \/ SubmitResponse

Spec == Init /\ [][Next]_vars

\* ================================================================ claims
Good2xx(code) == code \in 200..299

LookupOk ==
    lookupResp.kind = "http" /\ Good2xx(lookupResp.status) /\ lookupResp.json

\* Positions of the response entries for the queried number.
Matching ==
    {i \in 1..Len(lookupResp.userKeys) :
        lookupResp.userKeys[i].PhoneNumber = phoneNumber}

\* The j-th matching position, in the order received.
NthMatching(j) ==
    CHOOSE i \in Matching : Cardinality({m \in Matching : m <= i}) = j

KeySetEmpty == LookupOk /\ Matching = {}

CountUrl(u) == Cardinality({i \in 1..Len(requests) : requests[i].url = u})

SubmitSent == CountUrl(ApiSubmitHashesUrl) > 0

MarkReturned == op = "mark" /\ pc = "done"

\* MarkSMSAsVerified is past its call of GetAllIterationsOfSMSMessage.
Expanded == op = "mark" /\ pc \in {"derive", "submit", "submit_wait", "done"}
            /\ LookupOk /\ Matching # {}

SomePairFails ==
    \E k \in 1..Len(publicKeys), v \in 1..Len(smsMessages) :
        GetHashForSMSMessage(publicKeys[k], agent, smsMessages[v]).err # "nil"

LookupFailed == lookupResp.kind # "none" /\ ~LookupOk

SubmitFailed ==
    submitResp.kind # "none"
    /\ ~(submitResp.kind = "http" /\ Good2xx(submitResp.status))

\* C1: MarkSMSAsVerified returns (false, nil) if and only if the lookup
\* succeeded and no entry is for the queried number; a credential, lookup,
\* derivation or submission failure always returns a non-nil error.
C1_NotSupportedIffNoKeys ==
    MarkReturned =>
        /\ (~verified /\ err = "nil") <=> KeySetEmpty
        /\ (\/ ~partner.json
            \/ ~partner.key
            \/ LookupFailed
            \/ (Expanded /\ SomePairFails)
            \/ SubmitFailed) => err # "nil"

\* C1 witness: the lookup answered with entries, none for the queried number,
\* and the call returned (false, nil).
C1_Witness ==
    /\ MarkReturned /\ ~verified /\ err = "nil"
    /\ Len(lookupResp.userKeys) > 0 /\ Matching = {}

\* C2: a derivation failure for any pair, the last included, ends the call
\* with an error and no submission request; a submission request is sent only
\* after every (key, variant) pair has produced a hash.
C2_NoPartialSubmission ==
    /\ (Expanded /\ SomePairFails) =>
          /\ ~SubmitSent
          /\ pc \notin {"submit", "submit_wait"}
          /\ pc = "done" => (~verified /\ err # "nil")
    /\ SubmitSent =>
          /\ ~SomePairFails
          /\ Len(messagesToGoogle) = Len(publicKeys) * Len(smsMessages)

\* C2 witness: the last pair failed after earlier pairs had produced hashes.
C2_Witness ==
    /\ MarkReturned /\ Expanded /\ err # "nil" /\ ~SubmitSent
    /\ Len(publicKeys) = 2
    /\ ki = Len(publicKeys) /\ vi = Len(smsMessages)
    /\ Len(messagesToGoogle) = Len(publicKeys) * Len(smsMessages) - 1

\* C3: MarkSMSAsVerified returns (true, nil) exactly when the lookup returned
\* at least one key, every derivation succeeded, the submission was sent and
\* its status is in 200..299; any other submission status yields
\* (false, non-nil error).
C3_VerifiedIffSubmitted2xx ==
    MarkReturned =>
        /\ verified <=>
              /\ LookupOk /\ Matching # {}
              /\ ~SomePairFails
              /\ SubmitSent
              /\ submitResp.kind = "http" /\ Good2xx(submitResp.status)
        /\ verified => err = "nil"
        /\ (submitResp.kind = "http" /\ ~Good2xx(submitResp.status)) =>
              (~verified /\ err # "nil")

\* C3 witness: a submission answered 299 and the call returned (true, nil).
C3_Witness ==
    MarkReturned /\ verified /\ err = "nil" /\ submitResp.status = 299

\* C4: every call returns a (result, error) pair and never aborts, also for
\* a credential blob that is valid JSON without a PEM private key.
C4_AlwaysReturns == pc # "panic"

NoOuterSpace(msg) ==
    msg = <<>> \/ (msg[1] \notin WhiteSpace /\ msg[Len(msg)] \notin WhiteSpace)

\* C5: the variant list is never empty, its first element is the message
\* itself, and a message without leading or trailing whitespace has exactly
\* one variant.
C5_FirstIsOriginal ==
    Expanded =>
        /\ Len(smsMessages) >= 1
        /\ smsMessages[1] = smsMessage
        /\ NoOuterSpace(smsMessage) => Len(smsMessages) = 1

\* C5 witness: a non-empty message without outer whitespace was expanded.
C5_Witness ==
    Expanded /\ smsMessage # <<>> /\ NoOuterSpace(smsMessage) /\ Len(smsMessages) = 1

\* C6: the variant list never holds the same string twice.
C6_NoDuplicates ==
    Expanded =>
        \A i, j \in 1..Len(smsMessages) : i < j => smsMessages[i] # smsMessages[j]

\* The key whose hash is entry i of the batch.
KeyOfEntry(i) == publicKeys[((i - 1) \div Len(smsMessages)) + 1]

\* The call ended inside the loops, at pair (ki, vi).
FailedInLoop == MarkReturned /\ Expanded /\ ~SubmitSent

\* C7: ScalarMult is reached only with a point that passed IsOnCurve for
\* P-384; a well-formed key on another curve is rejected with
\* PreconditionFailed, and no batch entry comes from a point off the curve.
C7_OnCurveBeforeScalarMult ==
    /\ \A pt \in scalarMults : IsOnCurve(P384, pt[1], pt[2])
    /\ \A i \in 1..Len(messagesToGoogle) :
          /\ KeyOfEntry(i).kind = "ec"
          /\ IsOnCurve(P384, KeyOfEntry(i).X, KeyOfEntry(i).Y)
    /\ (/\ FailedInLoop
        /\ publicKeys[ki].kind = "ec"
        /\ publicKeys[ki].curve = "P-256"
        /\ ~IsOnCurve(P384, publicKeys[ki].X, publicKeys[ki].Y))
          => (err = "PreconditionFailed" /\ ~verified)

\* C7 witness: after a P-384 key was used, a P-256 key was rejected.
C7_Witness ==
    /\ FailedInLoop /\ err = "PreconditionFailed"
    /\ scalarMults # {}
    /\ publicKeys[ki].curve = "P-256"

\* GetPhoneNumberPublicKeys has returned.
KeysReturned ==
    \/ (op = "keys" /\ pc = "done")
    \/ (op = "mark" /\ pc \in {"derive", "submit", "submit_wait", "done"})

\* C8: GetPhoneNumberPublicKeys returns exactly the keys of the entries for
\* the queried number, in the order received, with a nil error; with no such
\* entry, the empty list and a nil error.
C8_ExactlyMatchingKeys ==
    (KeysReturned /\ LookupOk) =>
        /\ keysErr = "nil"
        /\ Len(publicKeys) = Cardinality(Matching)
        /\ \A j \in 1..Len(publicKeys) :
              publicKeys[j] = lookupResp.userKeys[NthMatching(j)].PublicKey

\* C8 witness: of two entries the first is for another number and only the
\* second one's key was returned.
C8_Witness ==
    /\ op = "keys" /\ pc = "done" /\ LookupOk
    /\ Len(lookupResp.userKeys) = 2 /\ Matching = {2}
    /\ publicKeys = <<lookupResp.userKeys[2].PublicKey>>

\* C9: the submitted batch has #keys * #variants entries, entry
\* k * #variants + v being the hash of key k and variant v with the agent's
\* ID, and the batch goes out in one request.
C9_BatchOrder ==
    SubmitSent =>
        LET nk == Len(publicKeys)
            nv == Len(smsMessages)
            sent == {i \in 1..Len(requests) : requests[i].url = ApiSubmitHashesUrl}
        IN /\ Cardinality(sent) = 1
           /\ \A i \in sent :
                /\ Len(requests[i].messages) = nk * nv
                /\ \A k \in 0..(nk - 1), v \in 0..(nv - 1) :
                     requests[i].messages[k * nv + v + 1] =
                        [Hash |-> Base64(GetHashForSMSMessage(
                                     publicKeys[k + 1], agent, smsMessages[v + 1]).hash),
                         AgentId |-> agent.ID]

\* C9 witness: two different keys and two variants went out as four entries.
C9_Witness ==
    /\ SubmitSent
    /\ Len(publicKeys) = 2 /\ publicKeys[1] # publicKeys[2]
    /\ Len(smsMessages) = 2
    /\ Len(requests[2].messages) = 4

\* C10: one call sends at most one lookup request and at most one submission
\* request; the submission follows a 2xx lookup response with a non-empty key
\* set; after a failed lookup or a failed submission nothing more is sent.
C10_SinglePass ==
    /\ CountUrl(ApiGetPublicKeysUrl) <= 1
    /\ CountUrl(ApiSubmitHashesUrl) <= 1
    /\ SubmitSent =>
          /\ Len(requests) = 2
          /\ requests[1].url = ApiGetPublicKeysUrl
          /\ requests[2].url = ApiSubmitHashesUrl
          /\ LookupOk /\ Matching # {}
    /\ LookupFailed => (pc = "done" /\ Len(requests) = 1)
    /\ submitResp.kind # "none" => (pc = "done" /\ Len(requests) = 2)

\* C10 witness: the submission answered 300 and the call ended with the two
\* requests it had sent.
C10_Witness ==
    /\ MarkReturned /\ SubmitSent /\ submitResp.status = 300
    /\ Len(requests) = 2

====
